---- MODULE Spec2Model ----
(***************************************************************************)
(* The three HTTP services of the eCommerce system:                        *)
(*   order    (src/order/order.go)       DynamoDB table "order" + S3 export *)
(*   product  (src/product/product.go)   MySQL table + Redis cache-aside    *)
(*   customer (src/customer/customer.go) MySQL table + Redis cache-aside    *)
(* One action per HTTP handler.  Every request chooses, besides its input, *)
(* the set `down` of dependency operations that fail while it is served.   *)
(***************************************************************************)
EXTENDS Naturals, Sequences, FiniteSets

VARIABLES
    dynamo,      \* DynamoDB table "order": id -> item (attribute name -> S value)
    s3,          \* the S3 bucket: object key -> stored document
    db,          \* MySQL: service -> (id -> row), row = column -> value
    redis,       \* Redis: service -> (key -> stored string, a JSON text)
    req,         \* the request served last
    resp,        \* the response written for it (status, JSON body)
    calls,       \* the dependency operations that request executed, in order
    down,        \* the dependency operations failing while it was served
    nreq,        \* number of requests served
    created,     \* history: service -> (id -> struct of the latest create answered 201)
    exportsSinceCreate,  \* history: exports answered 200 since the last create answered 201
    inflight     \* the requests being served concurrently: slot -> position and locals

vars == <<dynamo, s3, db, redis, req, resp, calls, down, nreq, created,
          exportsSinceCreate, inflight>>

stores == <<dynamo, s3, db, redis>>

----------------------------------------------------------------------------
(* Bounds *)

MaxRequests == 3

MaxInflight == 2

Slots == 1..MaxInflight

Ids == {"a", "b"}

F2Vals == {"x", "y"}

F3Vals == {"z"}

CachedServices == {"product", "customer"}

Services == {"order"} \cup CachedServices

----------------------------------------------------------------------------
(* HTTP status codes used by the handlers *)

StatusOK == 200

StatusCreated == 201

StatusBadRequest == 400

StatusNotFound == 404

StatusInternalServerError == 500

----------------------------------------------------------------------------
(* JSON texts.  A text is a document [kind, elems]: an object holds a      *)
(* sequence of <<key, value>> members, an array a sequence of documents,   *)
(* "null" is the literal null and "garbage" is a text that is not JSON.    *)

JObject(members) == [kind |-> "object", elems |-> members]

JArray(docs) == [kind |-> "array", elems |-> docs]

JNull == [kind |-> "null", elems |-> <<>>]

Garbage == [kind |-> "garbage", elems |-> <<>>]

NoBody == [kind |-> "none", elems |-> <<>>]

\* gin.H{key: value}
H(key, value) == JObject(<< <<key, value>> >>)

\* Value of the last member named key, dflt when there is none.
Lookup(members, key, dflt) ==
    LET at == {i \in 1..Len(members) : members[i][1] = key}
    IN  IF at = {} THEN dflt
        ELSE members[CHOOSE i \in at : \A j \in at : j <= i][2]

\* The json tags of the struct of each service, in field order.
Tags(svc) ==
    CASE svc = "order"    -> <<"id", "customerid", "productid">>
      [] svc = "product"  -> <<"id", "name", "category">>
      [] svc = "customer" -> <<"id", "name", "gender">>

TagSet(svc) == {Tags(svc)[i] : i \in 1..3}

\* The zero value of the struct (var product Product).
ZeroStruct(svc) == [t \in TagSet(svc) |-> ""]

\* json.Marshal of a struct: one member per field, in field order.
Marshal(svc, v) == JObject([i \in 1..3 |-> <<Tags(svc)[i], v[Tags(svc)[i]]>>])

\* json.Unmarshal of a text into a struct: fields absent from the text keep
\* their zero value; a text that is not a JSON object is an error.
Unmarshal(svc, text) ==
    IF text.kind # "object"
    THEN [err |-> TRUE, v |-> ZeroStruct(svc)]
    ELSE [err |-> FALSE, v |-> [t \in TagSet(svc) |-> Lookup(text.elems, t, "")]]

\* A binder that reports no error and leaves the struct at its zero value
\* when the body does not decode.
ShouldBindJSON_lenient(svc, body) == [err |-> FALSE, v |-> Unmarshal(svc, body).v]

\* c.ShouldBindJSON(&v): decode the request body into the struct.
ShouldBindJSON(svc, body) == Unmarshal(svc, body)

\* c.DefaultQuery(key, dflt)
DefaultQuery(query, key, dflt) == Lookup(query, key, dflt)

\* f with key k bound to v (added or replaced).
Put(f, k, v) == [x \in DOMAIN f \cup {k} |-> IF x = k THEN v ELSE f[x]]

Empty == [x \in {} |-> ""]

----------------------------------------------------------------------------
(* Inputs *)

Queries == {<<>>} \cup {<< <<"id", i>> >> : i \in Ids}

Structs(svc) ==
    {[t \in TagSet(svc) |-> CASE t = Tags(svc)[1] -> i
                              [] t = Tags(svc)[2] -> f2
                              [] t = Tags(svc)[3] -> f3] :
        i \in Ids, f2 \in F2Vals, f3 \in F3Vals}

Bodies(svc) == {Marshal(svc, v) : v \in Structs(svc)} \cup {Garbage}

----------------------------------------------------------------------------
(* Order service: DynamoDB and S3 *)

OrderAttrs == {"id", "customerid", "productid"}

\* The order read off an item: each attribute that is a string is copied.
OrderOfItem(item) ==
    [t \in TagSet("order") |->
        CASE t = "id"         -> item["id"]
          [] t = "customerid" -> item["customerid"]
          [] t = "productid"  -> item["productid"]]

\* The item PutItem is given for an order.
ItemOfOrder(order) ==
    [a \in OrderAttrs |->
        CASE a = "id"         -> order["id"]
          [] a = "customerid" -> order["customerid"]
          [] a = "productid"  -> order["productid"]]

\* A lookup that reports an absent key as an error.
getOrderFromDynamoDB_absentIsError(table, orderID, dn) ==
    IF "dynamodb.GetItem" \in dn \/ orderID \notin DOMAIN table
    THEN [err |-> TRUE, isNil |-> TRUE, v |-> ZeroStruct("order")]
    ELSE [err |-> FALSE, isNil |-> FALSE, v |-> OrderOfItem(table[orderID])]

\* dynamoClient.GetItem; result.Item == nil when the key is absent.
getOrderFromDynamoDB(table, orderID, dn) ==
    IF "dynamodb.GetItem" \in dn
    THEN [err |-> TRUE, isNil |-> TRUE, v |-> ZeroStruct("order")]
    ELSE IF orderID \notin DOMAIN table
    THEN [err |-> FALSE, isNil |-> TRUE, v |-> ZeroStruct("order")]
    ELSE [err |-> FALSE, isNil |-> FALSE, v |-> OrderOfItem(table[orderID])]

\* dynamoClient.PutItem without a condition expression: the item is written
\* under its key whether or not the key is already present.
saveOrderToDynamoDB(table, order, dn) ==
    IF "dynamodb.PutItem" \in dn
    THEN [err |-> TRUE, table |-> table]
    ELSE [err |-> FALSE, table |-> Put(table, order["id"], ItemOfOrder(order))]

\* The order in which Scan returns the keys of the table (the table's
\* storage order, the same for every scan of an unchanged table).
ScanOrder == <<"b", "a">>

RECURSIVE ScanFrom(_, _)
ScanFrom(table, i) ==
    IF i > Len(ScanOrder) THEN <<>>
    ELSE IF ScanOrder[i] \in DOMAIN table
    THEN <<table[ScanOrder[i]]>> \o ScanFrom(table, i + 1)
    ELSE ScanFrom(table, i + 1)

\* result.Items of dynamoClient.Scan
ScanItems(table) == ScanFrom(table, 1)

\* A scan whose error is dropped: the caller sees an empty result.
getAllOrdersFromDynamoDB_errorDropped(table, dn) ==
    IF "dynamodb.Scan" \in dn
    THEN [err |-> FALSE, isNil |-> TRUE, elems |-> <<>>]
    ELSE LET items == ScanItems(table)
         IN  [err |-> FALSE,
              isNil |-> (Len(items) = 0),
              elems |-> [i \in 1..Len(items) |-> OrderOfItem(items[i])]]

\* var orders []Order is nil until the first append.
getAllOrdersFromDynamoDB(table, dn) ==
    IF "dynamodb.Scan" \in dn
    THEN [err |-> TRUE, isNil |-> TRUE, elems |-> <<>>]
    ELSE LET items == ScanItems(table)
         IN  [err |-> FALSE,
              isNil |-> (Len(items) = 0),
              elems |-> [i \in 1..Len(items) |-> OrderOfItem(items[i])]]

\* json.Marshal of a []Order: a nil slice encodes as null, any other slice
\* as an array of the encoded structs.  json.Marshal returns an error beside
\* the text: saveOrdersToS3 answers it on a branch of its own, which the
\* handler below takes when "json.Marshal" is among the failing operations
\* (encoding/json itself has no failing case for structs of strings).  In
\* saveToCache a json.Marshal error has the effect of a redisClient.Set
\* error, nothing written and nothing returned, and is not told apart.
MarshalOrders(orders) ==
    IF orders.isNil THEN JNull
    ELSE JArray([i \in 1..Len(orders.elems) |-> Marshal("order", orders.elems[i])])

objectKey == "orders_data.json"

\* An upload that keeps an existing export and writes beside it.
saveDataToS3_versioned(bucket, data, dn) ==
    IF "s3.PutObject" \in dn
    THEN [err |-> TRUE, bucket |-> bucket]
    ELSE IF objectKey \in DOMAIN bucket
    THEN [err |-> FALSE, bucket |-> Put(bucket, "orders_data.json.1", data)]
    ELSE [err |-> FALSE, bucket |-> Put(bucket, objectKey, data)]

\* s3Client.PutObject under the fixed key.
saveDataToS3(bucket, data, dn) ==
    IF "s3.PutObject" \in dn
    THEN [err |-> TRUE, bucket |-> bucket]
    ELSE [err |-> FALSE, bucket |-> Put(bucket, objectKey, data)]

----------------------------------------------------------------------------
(* Product and customer services: MySQL and Redis *)

\* The columns named by the INSERT and SELECT statements, in statement order.
Columns(svc) ==
    CASE svc = "product"  -> <<"id", "name", "category">>
      [] svc = "customer" -> <<"id", "name", "gender">>

\* The id column is the table's primary key: an INSERT of a present id is
\* rejected by the store.
PrimaryKeyViolation(rows, id) == id \in DOMAIN rows

\* A cache lookup that treats a value it cannot decode as an absent key.
getFromCache_decodeErrorIsMiss(svc, keys, id, dn) ==
    IF "redis.Get" \in dn
    THEN [err |-> TRUE, isNil |-> TRUE, v |-> ZeroStruct(svc)]
    ELSE IF id \notin DOMAIN keys \/ Unmarshal(svc, keys[id]).err
    THEN [err |-> FALSE, isNil |-> TRUE, v |-> ZeroStruct(svc)]
    ELSE [err |-> FALSE, isNil |-> FALSE, v |-> Unmarshal(svc, keys[id]).v]

\* A cache lookup that reports every key as absent.
getFromCache_alwaysMiss(svc, keys, id, dn) ==
    IF "redis.Get" \in dn
    THEN [err |-> TRUE, isNil |-> TRUE, v |-> ZeroStruct(svc)]
    ELSE [err |-> FALSE, isNil |-> TRUE, v |-> ZeroStruct(svc)]

\* redisClient.Get, then json.Unmarshal of the value.
getFromCache(svc, keys, id, dn) ==
    IF "redis.Get" \in dn
    THEN [err |-> TRUE, isNil |-> TRUE, v |-> ZeroStruct(svc)]
    ELSE IF id \notin DOMAIN keys
    THEN [err |-> FALSE, isNil |-> TRUE, v |-> ZeroStruct(svc)]
    ELSE LET u == Unmarshal(svc, keys[id])
         IN  IF u.err
             THEN [err |-> TRUE, isNil |-> TRUE, v |-> ZeroStruct(svc)]
             ELSE [err |-> FALSE, isNil |-> FALSE, v |-> u.v]

\* A cache write keyed by the struct's second field instead of its id.
saveToCache_keyedBySecondField(svc, keys, v, dn) ==
    IF "redis.Set" \in dn THEN keys
    ELSE Put(keys, v[Tags(svc)[2]], Marshal(svc, v))

\* A cache write whose failure leaves a truncated value under the key.
saveToCache_partialOnError(svc, keys, v, dn) ==
    IF "redis.Set" \in dn THEN Put(keys, v["id"], Garbage)
    ELSE Put(keys, v["id"], Marshal(svc, v))

\* A cache write that replaces the whole keyspace by the one entry.
saveToCache_replacesKeyspace(svc, keys, v, dn) ==
    IF "redis.Set" \in dn THEN keys
    ELSE Put(Empty, v["id"], Marshal(svc, v))

\* json.Marshal, then redisClient.Set with no expiry; an error is only logged.
saveToCache(svc, keys, v, dn) ==
    IF "redis.Set" \in dn THEN keys
    ELSE Put(keys, v["id"], Marshal(svc, v))

\* A SELECT that names the second and third column in the other order, so
\* that each is scanned into the other's field.
getFromDB_swapped(svc, rows, id, dn) ==
    IF "db.Get" \in dn \/ id \notin DOMAIN rows
    THEN [err |-> TRUE, v |-> ZeroStruct(svc)]
    ELSE LET cols == Columns(svc)
         IN  [err |-> FALSE,
              v |-> [t \in TagSet(svc) |->
                        CASE t = Tags(svc)[1] -> rows[id][cols[1]]
                          [] t = Tags(svc)[2] -> rows[id][cols[3]]
                          [] t = Tags(svc)[3] -> rows[id][cols[2]]]]

\* SELECT id, <f2>, <f3> FROM <table> WHERE id = ?; no row is an error.
getFromDB(svc, rows, id, dn) ==
    IF "db.Get" \in dn \/ id \notin DOMAIN rows
    THEN [err |-> TRUE, v |-> ZeroStruct(svc)]
    ELSE LET cols == Columns(svc)
         IN  [err |-> FALSE,
              v |-> [t \in TagSet(svc) |->
                        rows[id][cols[CHOOSE i \in 1..3 : Tags(svc)[i] = t]]]]

\* An insert that replaces the row of a present id (REPLACE INTO).
saveToDB_replace(svc, rows, v, dn) ==
    IF "db.Exec" \in dn
    THEN [err |-> TRUE, rows |-> rows]
    ELSE LET args == [i \in 1..3 |-> v[Tags(svc)[i]]]
             cols == Columns(svc)
             row  == [c \in {cols[i] : i \in 1..3} |->
                         args[CHOOSE i \in 1..3 : cols[i] = c]]
         IN  [err |-> FALSE, rows |-> Put(rows, v["id"], row)]

\* An insert whose error is dropped: the caller is told the row was stored.
saveToDB_errorDropped(svc, rows, v, dn) ==
    IF "db.Exec" \in dn \/ PrimaryKeyViolation(rows, v["id"])
    THEN [err |-> FALSE, rows |-> rows]
    ELSE LET args == [i \in 1..3 |-> v[Tags(svc)[i]]]
             cols == Columns(svc)
             row  == [c \in {cols[i] : i \in 1..3} |->
                         args[CHOOSE i \in 1..3 : cols[i] = c]]
         IN  [err |-> FALSE, rows |-> Put(rows, v["id"], row)]

\* INSERT INTO <table> (id, <f2>, <f3>) VALUES (?, ?, ?)
saveToDB(svc, rows, v, dn) ==
    IF "db.Exec" \in dn \/ PrimaryKeyViolation(rows, v["id"])
    THEN [err |-> TRUE, rows |-> rows]
    ELSE LET args == [i \in 1..3 |-> v[Tags(svc)[i]]]
             cols == Columns(svc)
             row  == [c \in {cols[i] : i \in 1..3} |->
                         args[CHOOSE i \in 1..3 : cols[i] = c]]
         IN  [err |-> FALSE, rows |-> Put(rows, v["id"], row)]

----------------------------------------------------------------------------
(* Initial state: empty stores, no request served yet *)

NoRequest == [svc |-> "none", kind |-> "none", query |-> <<>>, body |-> NoBody]

NoResponse == [status |-> 0, body |-> NoBody]

\* A slot serving no request.
Idle == [pc |-> "idle", svc |-> "none", kind |-> "none", id |-> "", v |-> Empty]

InitObserved ==
    /\ inflight = [p \in Slots |-> Idle]
    /\ req = NoRequest
    /\ resp = NoResponse
    /\ calls = <<>>
    /\ down = {}
    /\ nreq = 0
    /\ created = [s \in Services |-> Empty]
    /\ exportsSinceCreate = 0

Init ==
    /\ dynamo = Empty
    /\ s3 = Empty
    /\ db = [s \in CachedServices |-> Empty]
    /\ redis = [s \in CachedServices |-> Empty]
    /\ InitObserved

\* What every handler records of the request it served.
Served(svc, kind, query, body, dn, status, out, ops) ==
    /\ nreq < MaxRequests
    /\ nreq' = nreq + 1
    /\ req' = [svc |-> svc, kind |-> kind, query |-> query, body |-> body]
    /\ down' = dn
    /\ resp' = [status |-> status, body |-> out]
    /\ calls' = ops
    /\ UNCHANGED inflight

----------------------------------------------------------------------------
(* Order service handlers *)

getOrder ==
    \E query \in Queries, dn \in SUBSET {"dynamodb.GetItem"} :
        LET orderID == DefaultQuery(query, "id", "")
            r == getOrderFromDynamoDB(dynamo, orderID, dn)
            ops == <<"dynamodb.GetItem">>
        IN  /\ IF r.err
               THEN Served("order", "get", query, NoBody, dn,
                           StatusInternalServerError,
                           H("error", "failed to fetch order"), ops)
               ELSE IF r.isNil
               THEN Served("order", "get", query, NoBody, dn,
                           StatusNotFound, H("error", "order not found"), ops)
               ELSE Served("order", "get", query, NoBody, dn,
                           StatusOK, Marshal("order", r.v), ops)
            /\ UNCHANGED <<stores, created, exportsSinceCreate>>

createOrder ==
    \E body \in Bodies("order"), dn \in SUBSET {"dynamodb.PutItem"} :
        LET b == ShouldBindJSON("order", body)
            w == saveOrderToDynamoDB(dynamo, b.v, dn)
        IN  IF b.err
            THEN /\ Served("order", "create", <<>>, body, dn,
                           StatusBadRequest, H("error", "invalid body"), <<>>)
                 /\ UNCHANGED <<stores, created, exportsSinceCreate>>
            ELSE IF w.err
            THEN /\ Served("order", "create", <<>>, body, dn,
                           StatusInternalServerError,
                           H("error", "failed to save order"),
                           <<"dynamodb.PutItem">>)
                 /\ UNCHANGED <<stores, created, exportsSinceCreate>>
            ELSE /\ Served("order", "create", <<>>, body, dn,
                           StatusCreated,
                           H("message", "Order created successfully"),
                           <<"dynamodb.PutItem">>)
                 /\ dynamo' = w.table
                 /\ created' = [created EXCEPT !["order"] = Put(@, b.v["id"], b.v)]
                 /\ exportsSinceCreate' = 0
                 /\ UNCHANGED <<s3, db, redis>>

saveOrdersToS3 ==
    \E dn \in SUBSET {"dynamodb.Scan", "json.Marshal", "s3.PutObject"} :
        LET o == getAllOrdersFromDynamoDB(dynamo, dn)
            data == MarshalOrders(o)
            w == saveDataToS3(s3, data, dn)
        IN  IF o.err
            THEN /\ Served("order", "export", <<>>, NoBody, dn,
                           StatusInternalServerError,
                           H("error", "failed to fetch orders"),
                           <<"dynamodb.Scan">>)
                 /\ UNCHANGED <<stores, created, exportsSinceCreate>>
            ELSE IF "json.Marshal" \in dn
            THEN /\ Served("order", "export", <<>>, NoBody, dn,
                           StatusInternalServerError,
                           H("error", "failed to marshal orders"),
                           <<"dynamodb.Scan", "json.Marshal">>)
                 /\ UNCHANGED <<stores, created, exportsSinceCreate>>
            ELSE IF w.err
            THEN /\ Served("order", "export", <<>>, NoBody, dn,
                           StatusInternalServerError,
                           H("error", "failed to save data to S3"),
                           <<"dynamodb.Scan", "json.Marshal", "s3.PutObject">>)
                 /\ UNCHANGED <<stores, created, exportsSinceCreate>>
            ELSE /\ Served("order", "export", <<>>, NoBody, dn,
                           StatusOK,
                           H("message", "Orders saved to S3 successfully"),
                           <<"dynamodb.Scan", "json.Marshal", "s3.PutObject">>)
                 /\ s3' = w.bucket
                 /\ exportsSinceCreate' = exportsSinceCreate + 1
                 /\ UNCHANGED <<dynamo, db, redis, created>>

----------------------------------------------------------------------------
(* Product and customer service handlers (the two files are the same code) *)

getRecord(svc) ==
    \E query \in Queries, dn \in SUBSET {"redis.Get", "db.Get", "redis.Set"} :
        LET id == DefaultQuery(query, "id", "")
            c == getFromCache(svc, redis[svc], id, dn)
            r == getFromDB(svc, db[svc], id, dn)
        IN  IF c.err
            THEN /\ Served(svc, "get", query, NoBody, dn,
                           StatusInternalServerError,
                           H("error", "failed to fetch from cache"),
                           <<"redis.Get">>)
                 /\ UNCHANGED <<stores, created, exportsSinceCreate>>
            ELSE IF ~c.isNil
            THEN /\ Served(svc, "get", query, NoBody, dn,
                           StatusOK, Marshal(svc, c.v), <<"redis.Get">>)
                 /\ UNCHANGED <<stores, created, exportsSinceCreate>>
            ELSE IF r.err
            THEN /\ Served(svc, "get", query, NoBody, dn,
                           StatusInternalServerError,
                           H("error", "failed to fetch from DB"),
                           <<"redis.Get", "db.Get">>)
                 /\ UNCHANGED <<stores, created, exportsSinceCreate>>
            ELSE /\ Served(svc, "get", query, NoBody, dn,
                           StatusOK, Marshal(svc, r.v),
                           <<"redis.Get", "db.Get", "redis.Set">>)
                 /\ redis' = [redis EXCEPT ![svc] = saveToCache(svc, @, r.v, dn)]
                 /\ UNCHANGED <<dynamo, s3, db, created, exportsSinceCreate>>

CreatedMessage(svc) ==
    CASE svc = "product"  -> "Product created successfully"
      [] svc = "customer" -> "Customer created successfully"

createRecord(svc) ==
    \E body \in Bodies(svc), dn \in SUBSET {"db.Exec", "redis.Set"} :
        LET b == ShouldBindJSON(svc, body)
            w == saveToDB(svc, db[svc], b.v, dn)
        IN  IF b.err
            THEN /\ Served(svc, "create", <<>>, body, dn,
                           StatusBadRequest, H("error", "invalid body"), <<>>)
                 /\ UNCHANGED <<stores, created, exportsSinceCreate>>
            ELSE IF w.err
            THEN /\ Served(svc, "create", <<>>, body, dn,
                           StatusInternalServerError,
                           H("error", "failed to save to DB"), <<"db.Exec">>)
                 /\ UNCHANGED <<stores, created, exportsSinceCreate>>
            ELSE /\ Served(svc, "create", <<>>, body, dn,
                           StatusCreated,
                           H("message", CreatedMessage(svc)),
                           <<"db.Exec", "redis.Set">>)
                 /\ db' = [db EXCEPT ![svc] = w.rows]
                 /\ redis' = [redis EXCEPT ![svc] = saveToCache(svc, @, b.v, dn)]
                 /\ created' = [created EXCEPT ![svc] = Put(@, b.v["id"], b.v)]
                 /\ UNCHANGED <<dynamo, s3, exportsSinceCreate>>

getProduct == getRecord("product")

createProduct == createRecord("product")

getCustomer == getRecord("customer")

createCustomer == createRecord("customer")

----------------------------------------------------------------------------

Next ==
    \/ getOrder
    \/ createOrder
    \/ saveOrdersToS3
    \/ getProduct
    \/ createProduct
    \/ getCustomer
    \/ createCustomer

Spec == Init /\ [][Next]_vars

\* The Redis server outlives the process and is written by whoever can reach
\* it: here each cache starts with a value under key "a" that is not JSON.
InitExt ==
    /\ dynamo = Empty
    /\ s3 = Empty
    /\ db = [s \in CachedServices |-> Empty]
    /\ redis = [s \in CachedServices |-> Put(Empty, "a", Garbage)]
    /\ InitObserved

SpecExt == InitExt /\ [][Next]_vars

----------------------------------------------------------------------------
(* Product and customer services under concurrent requests.  gin serves    *)
(* each request in a goroutine of its own and the handlers take no lock,   *)
(* so the calls of different requests on the shared db and redisClient     *)
(* interleave.  Each step below is one such call of one request, with the  *)
(* handler's branching on its result; each call is atomic at its server.   *)

Goto(p, pc, svc, kind, id, v) ==
    inflight' = [inflight EXCEPT ![p] =
                    [pc |-> pc, svc |-> svc, kind |-> kind, id |-> id, v |-> v]]

Return(p) == inflight' = [inflight EXCEPT ![p] = Idle]

Accepted ==
    /\ nreq < MaxRequests
    /\ nreq' = nreq + 1

observed == <<req, resp, calls, down, created, exportsSinceCreate>>

\* A GET arrives: the handler reads the id parameter.
StartGet(p) ==
    \E svc \in CachedServices, query \in Queries :
        /\ inflight[p].pc = "idle"
        /\ Accepted
        /\ Goto(p, "getFromCache", svc, "get",
                DefaultQuery(query, "id", ""), ZeroStruct(svc))
        /\ UNCHANGED <<stores, observed>>

\* A POST arrives: the handler binds the body, answering 400 if it cannot.
StartCreate(p) ==
    \E svc \in CachedServices : \E body \in Bodies(svc) :
        LET b == ShouldBindJSON(svc, body)
        IN  /\ inflight[p].pc = "idle"
            /\ Accepted
            /\ IF b.err THEN Return(p)
               ELSE Goto(p, "saveToDB", svc, "create", b.v["id"], b.v)
            /\ UNCHANGED <<stores, observed>>

\* getProduct lines 86-96: error answers 500, a hit answers 200.
StepGetFromCache(p) ==
    \E dn \in SUBSET {"redis.Get"} :
        LET r == inflight[p]
            c == getFromCache(r.svc, redis[r.svc], r.id, dn)
        IN  /\ r.pc = "getFromCache"
            /\ IF c.err \/ ~c.isNil THEN Return(p)
               ELSE Goto(p, "getFromDB", r.svc, r.kind, r.id, r.v)
            /\ UNCHANGED <<stores, observed, nreq>>

\* getProduct lines 98-103: error answers 500.
StepGetFromDB(p) ==
    \E dn \in SUBSET {"db.Get"} :
        LET r == inflight[p]
            g == getFromDB(r.svc, db[r.svc], r.id, dn)
        IN  /\ r.pc = "getFromDB"
            /\ IF g.err THEN Return(p)
               ELSE Goto(p, "saveToCache", r.svc, r.kind, r.id, g.v)
            /\ UNCHANGED <<stores, observed, nreq>>

\* createProduct lines 117-121: error answers 500.
StepSaveToDB(p) ==
    \E dn \in SUBSET {"db.Exec"} :
        LET r == inflight[p]
            w == saveToDB(r.svc, db[r.svc], r.v, dn)
        IN  /\ r.pc = "saveToDB"
            /\ IF w.err THEN Return(p)
               ELSE Goto(p, "saveToCache", r.svc, r.kind, r.id, r.v)
            /\ db' = [db EXCEPT ![r.svc] = w.rows]
            /\ UNCHANGED <<dynamo, s3, redis, observed, nreq>>

\* getProduct lines 105-107 and createProduct lines 123-125: the record the
\* request holds is written to the cache and the request is answered.
StepSaveToCache(p) ==
    \E dn \in SUBSET {"redis.Set"} :
        LET r == inflight[p]
        IN  /\ r.pc = "saveToCache"
            /\ redis' = [redis EXCEPT ![r.svc] = saveToCache(r.svc, @, r.v, dn)]
            /\ Return(p)
            /\ UNCHANGED <<dynamo, s3, db, observed, nreq>>

NextConc ==
    \E p \in Slots :
        \/ StartGet(p)
        \/ StartCreate(p)
        \/ StepGetFromCache(p)
        \/ StepGetFromDB(p)
        \/ StepSaveToDB(p)
        \/ StepSaveToCache(p)

SpecConc == Init /\ [][NextConc]_vars

----------------------------------------------------------------------------
(* Vocabulary of the properties *)

\* The id a read request asks for.
GetId(r) == Lookup(r.query, "id", "")

\* The struct a well-formed create request carries.
CreateStruct(r) == [t \in TagSet(r.svc) |-> Lookup(r.body.elems, t, "")]

WellFormed(r) == r.body.kind = "object"

\* doc is a JSON object holding exactly the fields of struct v.
HasFields(doc, v) ==
    /\ doc.kind = "object"
    /\ Len(doc.elems) = Cardinality(DOMAIN v)
    /\ \A t \in DOMAIN v : \E i \in 1..Len(doc.elems) : doc.elems[i] = <<t, v[t]>>

\* Some dependency operation the request executed failed.
SomeCallFailed(ops, dn) == \E i \in 1..Len(ops) : ops[i] \in dn

IsGet(r, svcs) == r.kind = "get" /\ r.svc \in svcs

IsCreate(r, svcs) == r.kind = "create" /\ r.svc \in svcs

----------------------------------------------------------------------------
(* C1: in each service, a read of an id whose latest create was answered   *)
(* 201 is answered 200 with a record equal to the created one in all three *)
(* fields, from the cache or from the primary store; the only other answer *)
(* is 500, and only when a dependency call of the read itself failed.      *)
C1_ReadAfterCreate ==
    (IsGet(req, Services) /\ GetId(req) \in DOMAIN created[req.svc]) =>
        /\ resp.status \in {StatusOK, StatusInternalServerError}
        /\ resp.status = StatusInternalServerError => SomeCallFailed(calls, down)
        /\ resp.status = StatusOK =>
               HasFields(resp.body, created[req.svc][GetId(req)])

\* A read served from the primary store after a create whose cache write failed.
C1_Witness ==
    /\ IsGet(req, CachedServices)
    /\ GetId(req) \in DOMAIN created[req.svc]
    /\ resp.status = StatusOK
    /\ calls = <<"redis.Get", "db.Get", "redis.Set">>

(* C2: in the product and customer services, a read of an id whose cache   *)
(* entry is decodable, with the cache lookup succeeding, is answered 200   *)
(* with the cached record and executes the cache lookup only: no primary   *)
(* store read, whatever primary-store operations are failing.              *)
C2_CacheHitShortCircuits ==
    [][ (/\ IsGet(req', CachedServices)
         /\ GetId(req') \in DOMAIN redis[req'.svc]
         /\ redis[req'.svc][GetId(req')].kind = "object"
         /\ "redis.Get" \notin down')
        => (/\ resp'.status = StatusOK
            /\ HasFields(resp'.body,
                         [t \in TagSet(req'.svc) |->
                             Lookup(redis[req'.svc][GetId(req')].elems, t, "")])
            /\ calls' = <<"redis.Get">>
            /\ UNCHANGED stores) ]_vars

\* A cache hit served while the primary store read is failing.
C2_Witness ==
    /\ IsGet(req, CachedServices)
    /\ GetId(req) \in DOMAIN redis[req.svc]
    /\ "db.Get" \in down
    /\ "redis.Get" \notin down
    /\ resp.status = StatusOK

(* C3: in every service a create request whose body is malformed JSON is   *)
(* answered 400, executes no store or cache operation and leaves the       *)
(* primary stores, the caches and the bucket as they were.                 *)
C3_MalformedCreateWritesNothing ==
    [][ (IsCreate(req', Services) /\ ~WellFormed(req'))
        => (/\ resp'.status = StatusBadRequest
            /\ calls' = <<>>
            /\ UNCHANGED stores) ]_vars

\* A malformed create sent to a service that already holds a record.
C3_Witness ==
    /\ IsCreate(req, CachedServices)
    /\ ~WellFormed(req)
    /\ resp.status = StatusBadRequest
    /\ db[req.svc] # Empty

(* C4: a read of an id that is in neither the primary store nor the cache  *)
(* is answered 404 by the order service when the lookup succeeded, and the *)
(* order service answers 404 in no other case (a failing lookup gives 500);*)
(* the product and customer services answer such a read with 500 and never *)
(* answer any read with 404.                                               *)
C4_NotFoundAsymmetry ==
    /\ IsGet(req, {"order"}) =>
          LET missing == GetId(req) \notin DOMAIN dynamo
              failed  == "dynamodb.GetItem" \in down
          IN  /\ (missing /\ ~failed) => resp.status = StatusNotFound
              /\ resp.status = StatusNotFound => (missing /\ ~failed)
              /\ failed => resp.status = StatusInternalServerError
    /\ IsGet(req, CachedServices) =>
          /\ (GetId(req) \notin DOMAIN db[req.svc] /\
              GetId(req) \notin DOMAIN redis[req.svc])
                 => resp.status = StatusInternalServerError
          /\ resp.status # StatusNotFound

\* A read of an absent product or customer answered 500 with no dependency failing.
C4_Witness ==
    /\ IsGet(req, CachedServices)
    /\ GetId(req) \notin DOMAIN db[req.svc]
    /\ down = {}
    /\ calls = <<"redis.Get", "db.Get">>
    /\ resp.status = StatusInternalServerError

(* C5 as stated: in the product and customer services, once a create has  *)
(* been answered 201 the cache holds, under the created id, an entry equal *)
(* to the created record.                                                  *)
C5_CreateAlwaysFillsCache ==
    (IsCreate(req, CachedServices) /\ resp.status = StatusCreated) =>
        /\ CreateStruct(req)["id"] \in DOMAIN redis[req.svc]
        /\ HasFields(redis[req.svc][CreateStruct(req)["id"]], CreateStruct(req))

(* C5 amended: in the product and customer services, a create answered 201 *)
(* whose cache write succeeded leaves in the cache, under the created id,  *)
(* an entry equal to the created record, and a read of that id that comes  *)
(* next and whose cache lookup succeeds is a cache hit answered 200 with   *)
(* that record; a create answered 201 whose cache write failed leaves the  *)
(* cache as it was.                                                        *)
C5_CreateFillsCacheWhenWriteSucceeds ==
    [][ /\ (IsCreate(req', CachedServices) /\ resp'.status = StatusCreated) =>
               IF "redis.Set" \in down'
               THEN redis' = redis
               ELSE /\ CreateStruct(req')["id"] \in DOMAIN redis'[req'.svc]
                    /\ HasFields(redis'[req'.svc][CreateStruct(req')["id"]],
                                 CreateStruct(req'))
        /\ (/\ IsCreate(req, CachedServices)
            /\ resp.status = StatusCreated
            /\ "redis.Set" \notin down
            /\ IsGet(req', {req.svc})
            /\ GetId(req') = CreateStruct(req)["id"]
            /\ "redis.Get" \notin down') =>
               /\ calls' = <<"redis.Get">>
               /\ resp'.status = StatusOK
               /\ HasFields(resp'.body, CreateStruct(req)) ]_vars

\* The first read of an id, right after its create, served from the cache.
C5_Witness ==
    /\ nreq = 2
    /\ IsGet(req, CachedServices)
    /\ GetId(req) \in DOMAIN created[req.svc]
    /\ calls = <<"redis.Get">>
    /\ resp.status = StatusOK

(* C6: a bulk export answered 200 leaves under orders_data.json a JSON     *)
(* array with as many elements as the order table holds records, for every *)
(* table size including the empty table.                                   *)
C6_ExportIsArrayOfTableSize ==
    (req.kind = "export" /\ resp.status = StatusOK) =>
        /\ objectKey \in DOMAIN s3
        /\ s3[objectKey].kind = "array"
        /\ Len(s3[objectKey].elems) = Cardinality(DOMAIN dynamo)

C8_CreateExactlyOnce ==
    [][ (/\ IsCreate(req', Services)
         /\ WellFormed(req')
         /\ CreateStruct(req')["id"] \in
               DOMAIN (IF req'.svc = "order" THEN dynamo ELSE db[req'.svc]))
        => (/\ resp'.status = StatusInternalServerError
            /\ dynamo' = dynamo
            /\ db' = db) ]_vars

(* C9: in the product and customer services, a read whose cache lookup     *)
(* fails, or finds a value that cannot be decoded, is answered 500 having  *)
(* executed the cache lookup only: no primary-store read and no cache      *)
(* write, also when the primary store holds the record.                    *)
C9_CacheErrorFailsRead ==
    [][ (/\ IsGet(req', CachedServices)
         /\ \/ "redis.Get" \in down'
            \/ /\ GetId(req') \in DOMAIN redis[req'.svc]
               /\ redis[req'.svc][GetId(req')].kind # "object")
        => (/\ resp'.status = StatusInternalServerError
            /\ calls' = <<"redis.Get">>
            /\ UNCHANGED stores) ]_vars

\* A read answered 500 on an undecodable cache value although the primary
\* store holds the record and no dependency is failing.
C9_Witness ==
    /\ IsGet(req, CachedServices)
    /\ GetId(req) \in DOMAIN db[req.svc]
    /\ GetId(req) \in DOMAIN redis[req.svc]
    /\ redis[req.svc][GetId(req)] = Garbage
    /\ down = {}
    /\ resp.status = StatusInternalServerError

(* C10: in the product and customer services a failing cache write changes *)
(* no response: a read that misses the cache and finds the record in the   *)
(* primary store is answered 200 with that record, and a create whose      *)
(* insert succeeds is answered 201 with the record in the primary store;   *)
(* in both cases the cache is left as it was before the request.           *)
C10_CacheWriteFailureSwallowed ==
    [][ /\ (/\ IsGet(req', CachedServices)
            /\ "redis.Set" \in down'
            /\ down' \cap {"redis.Get", "db.Get"} = {}
            /\ GetId(req') \notin DOMAIN redis[req'.svc]
            /\ GetId(req') \in DOMAIN db[req'.svc]) =>
               /\ resp'.status = StatusOK
               /\ HasFields(resp'.body, db[req'.svc][GetId(req')])
               /\ UNCHANGED stores
        /\ (/\ IsCreate(req', CachedServices)
            /\ WellFormed(req')
            /\ "redis.Set" \in down'
            /\ "db.Exec" \notin down'
            /\ CreateStruct(req')["id"] \notin DOMAIN db[req'.svc]) =>
               /\ resp'.status = StatusCreated
               /\ CreateStruct(req')["id"] \in DOMAIN db'[req'.svc]
               /\ db'[req'.svc][CreateStruct(req')["id"]] = CreateStruct(req')
               /\ redis' = redis ]_vars

\* A read answered 200 from the primary store while the cache write fails.
C10_Witness ==
    /\ IsGet(req, CachedServices)
    /\ "redis.Set" \in down
    /\ calls = <<"redis.Get", "db.Get", "redis.Set">>
    /\ resp.status = StatusOK
    /\ GetId(req) \notin DOMAIN redis[req.svc]

(* C11: the bulk export is answered 500 whenever the table scan, the       *)
(* serialization or the object write fails and 200 only when all three     *)
(* succeeded; when the scan or the serialization fails no object write is  *)
(* attempted and the bucket is left as it was; every step is executed at   *)
(* most once, the request ending at the first step that fails.             *)
ExportSteps == <<"dynamodb.Scan", "json.Marshal", "s3.PutObject">>

C11_ExportFailsAsAWhole ==
    [][ req'.kind = "export" =>
          LET failed == {i \in 1..3 : ExportSteps[i] \in down'}
              first  == CHOOSE i \in failed : \A j \in failed : i <= j
          IN  /\ failed # {} => resp'.status = StatusInternalServerError
              /\ resp'.status = StatusOK <=> failed = {}
              /\ failed # {} => calls' = SubSeq(ExportSteps, 1, first)
              /\ failed = {} => calls' = ExportSteps
              /\ (failed \cap {1, 2} # {}) => s3' = s3
              /\ resp'.status = StatusInternalServerError => s3' = s3 ]_vars

\* An export answered 500 on a failing scan, the earlier export still in place.
C11_Witness ==
    /\ req.kind = "export"
    /\ down = {"dynamodb.Scan"}
    /\ resp.status = StatusInternalServerError
    /\ calls = <<"dynamodb.Scan">>
    /\ objectKey \in DOMAIN s3
    /\ dynamo # Empty

(* C12: in the product and customer services a create whose primary-store *)
(* insert fails (the statement fails, or the store rejects the id) is      *)
(* answered 500 having executed the insert only: no cache write, so the    *)
(* cache, and with it the entry of that id, present or absent, is as it    *)
(* was before the request.                                                 *)
C12_FailedInsertWritesNoCache ==
    [][ (/\ IsCreate(req', CachedServices)
         /\ WellFormed(req')
         /\ \/ "db.Exec" \in down'
            \/ PrimaryKeyViolation(db[req'.svc], CreateStruct(req')["id"]))
        => (/\ resp'.status = StatusInternalServerError
            /\ calls' = <<"db.Exec">>
            /\ redis' = redis
            /\ db' = db) ]_vars

\* A create answered 500 for an id whose cache entry holds other field
\* values than the request carries, the cache write not failing.
C12_Witness ==
    /\ IsCreate(req, CachedServices)
    /\ WellFormed(req)
    /\ resp.status = StatusInternalServerError
    /\ "redis.Set" \notin down
    /\ CreateStruct(req)["id"] \in DOMAIN redis[req.svc]
    /\ ~HasFields(redis[req.svc][CreateStruct(req)["id"]], CreateStruct(req))

(* C14: the read-only endpoints leave the primary stores unchanged in     *)
(* every outcome.  getOrder, getProduct and getCustomer never insert,      *)
(* overwrite or delete a record; getOrder changes nothing at all, and the  *)
(* only state a product or customer read may change is the cache entry of  *)
(* the id it read, in its own service.  The bulk export changes nothing    *)
(* but the bucket, leaving the order table as it was.                      *)
C14_ReadsLeaveStoresUnchanged ==
    [][ /\ IsGet(req', {"order"}) => UNCHANGED stores
        /\ IsGet(req', CachedServices) =>
              /\ UNCHANGED <<dynamo, s3, db>>
              /\ \A s \in CachedServices :
                    /\ DOMAIN redis[s] \subseteq DOMAIN redis'[s]
                    /\ \A k \in DOMAIN redis'[s] :
                          (s # req'.svc \/ k # GetId(req')) =>
                              (k \in DOMAIN redis[s] /\ redis'[s][k] = redis[s][k])
        /\ req'.kind = "export" => UNCHANGED <<dynamo, db, redis>> ]_vars

\* A read that filled the cache entry of its id while the cache already
\* held the entry of another id.
C14_Witness ==
    /\ IsGet(req, CachedServices)
    /\ resp.status = StatusOK
    /\ calls = <<"redis.Get", "db.Get", "redis.Set">>
    /\ "redis.Set" \notin down
    /\ \E k \in DOMAIN redis[req.svc] : k # GetId(req)

(* C13: in the product and customer services, under every interleaving of *)
(* the store and cache calls of concurrent create and read requests, every *)
(* cache entry equals the record the primary store holds under the same    *)
(* id: the cache holds no id the store lacks and no field value that       *)
(* differs from the store's.                                               *)
C13_CacheAgreesWithStore ==
    \A s \in CachedServices : \A k \in DOMAIN redis[s] :
        /\ k \in DOMAIN db[s]
        /\ HasFields(redis[s][k], db[s][k])

\* A read that missed the cache is about to fill it although a concurrent
\* request has filled the entry of the same id in the meantime, while a
\* second create of that id is in flight.
C13_Witness ==
    \E p \in Slots, q \in Slots :
        /\ p # q
        /\ inflight[p].pc = "saveToCache"
        /\ inflight[p].kind = "get"
        /\ inflight[p].id \in DOMAIN redis[inflight[p].svc]
        /\ inflight[q].pc = "saveToDB"
        /\ inflight[q].svc = inflight[p].svc
        /\ inflight[q].id = inflight[p].id

====
